---- MODULE Spec2Model ----
(***************************************************************************)
(* Model of the instrumented container of array_plotter.py: class Array    *)
(* (tracked elements, permutation, counters, labels, history) and the      *)
(* operations a client performs on it.                                     *)
(*                                                                         *)
(* Python lists are mutable objects that several names may refer to, so    *)
(* the model keeps a heap of list objects: `array` and `labels` hold       *)
(* references into it and every snapshot of `history` holds the references *)
(* of the copies that summary() made.  A position p of a Python list is    *)
(* index p+1 of the TLA+ sequence.  None is the empty sequence <<>>, a     *)
(* present value x is <<x>>.  The wall-clock field "time" of a snapshot is *)
(* not modelled.                                                           *)
(***************************************************************************)
EXTENDS Integers, Sequences, FiniteSets, TLC

\* Bounds of the model.
MaxLen == 2
MaxOps == 2
MaxK == 3

VARIABLES
    input,         \* the values the container was built from
    heap,          \* the list objects: reference r is heap[r]
    array,         \* self.array: reference of the list of ArrayElement
    permutation,   \* self.permutation
    accesses,      \* self.accesses
    comparisons,   \* self.comparisons
    swaps,         \* self.swaps
    labels,        \* self.labels: <<>> (None) or <<reference>>
    verbose,       \* self.verbose
    history,       \* self.history: the sequence of snapshots
    lastOp,        \* the client's last call, its outcome and the state before it
    prevOp,        \* the call before lastOp
    reads,         \* element reads the client's calls performed successfully
    compareCalls,  \* invocations of compare
    swapCalls,     \* swap calls that returned normally
    nops,          \* number of client calls so far
    run            \* the algorithm running on the container, if any

vars == <<input, heap, array, permutation, accesses, comparisons, swaps, labels,
          verbose, history, lastOp, prevOp, reads, compareCalls, swapCalls, nops,
          run>>

FINISH_COLOR == "lime"
NoLabel == "None"
SomeColor == "c"

----------------------------------------------------------------------------
\* Python list indexing: list[key] is defined for -n <= key < n, a negative
\* key counting from the end; anything else raises IndexError.
PyIndexOK(key, n) == key >= -n /\ key < n

PyPos(key, n) == IF key < 0 THEN key + n ELSE key

\* ArrayElement(element, array, index)
ArrayElement(element, index) == [element |-> element, index |-> index]

\* list(range(n))
RECURSIVE range(_)
range(n) == IF n = 0 THEN <<>> ELSE Append(range(n - 1), n - 1)

\* [None for i in range(n)]
RECURSIVE nones(_)
nones(n) == IF n = 0 THEN <<>> ELSE Append(nones(n - 1), NoLabel)

\* [i.index for i in lst]
RECURSIVE indexes(_)
indexes(lst) ==
    IF lst = <<>> THEN <<>> ELSE <<Head(lst).index>> \o indexes(Tail(lst))

\* [ArrayElement(values[i], self, i) for i in range(n)]
RECURSIVE elements(_, _)
elements(values, n) ==
    IF n = 0 THEN <<>>
    ELSE Append(elements(values, n - 1), ArrayElement(values[n], n - 1))

\* The container as one value, so that the methods compose.
Self ==
    [heap |-> heap, array |-> array, permutation |-> permutation,
     accesses |-> accesses, comparisons |-> comparisons, swaps |-> swaps,
     labels |-> labels, verbose |-> verbose, history |-> history]

len(c) == Len(c.heap[c.array])

\* A method returns normally with a value, or raises.
Return(c, out) == [c |-> c, exc |-> FALSE, out |-> out]

Raise(c) == [c |-> c, exc |-> TRUE, out |-> <<>>]

\* copy(x) of a list: a new list object with the same items.
copy(h, ref) == [heap |-> Append(h, h[ref]), ref |-> Len(h) + 1]

\* The default action of summary(): {"type": "none"}
NoAction == [type |-> "none", args |-> <<>>, value |-> <<>>]

\* lst[pos] = v on the list object ref, in place.
store(h, ref, pos, v) == [h EXCEPT ![ref] = [h[ref] EXCEPT ![pos + 1] = v]]

\* summary() with out["array"] = self.array: the snapshot shares the list.
summary_shares_array(c, action) ==
    LET l  == IF c.labels = <<>> THEN [heap |-> c.heap, ref |-> 0]
                                 ELSE copy(c.heap, c.labels[1])
        out == [array |-> c.array,
                accesses |-> c.accesses,
                comparisons |-> c.comparisons,
                swaps |-> c.swaps,
                labels |-> IF c.labels = <<>> THEN <<>> ELSE <<l.ref>>,
                action |-> action,
                permutation |-> c.permutation]
    IN  [c EXCEPT !.heap = l.heap, !.history = Append(c.history, out)]

\* Array.summary, and the history.append around every call of it.
summary(c, action) ==
    LET a  == copy(c.heap, c.array)
        l  == IF c.labels = <<>> THEN [heap |-> a.heap, ref |-> 0]
                                 ELSE copy(a.heap, c.labels[1])
        out == [array |-> a.ref,
                accesses |-> c.accesses,
                comparisons |-> c.comparisons,
                swaps |-> c.swaps,
                labels |-> IF c.labels = <<>> THEN <<>> ELSE <<l.ref>>,
                action |-> action,
                permutation |-> c.permutation]
    IN  [c EXCEPT !.heap = l.heap, !.history = Append(c.history, out)]

\* Array.update_permutation
update_permutation(c) ==
    [c EXCEPT !.permutation = indexes(c.heap[c.array])]

\* __getitem__ without `self.accesses += 1`.
getitem_nocount(c, key) ==
    IF ~PyIndexOK(key, len(c))
    THEN Raise(c)
    ELSE LET out == c.heap[c.array][PyPos(key, len(c)) + 1]
             c2  == IF c.verbose
                    THEN summary(c, [type |-> "access", args |-> <<key>>,
                                     value |-> <<>>])
                    ELSE c
         IN  Return(c2, <<out>>)

\* __getitem__ without `if self.verbose:`, recording every read.
getitem_always_records(c, key) ==
    IF ~PyIndexOK(key, len(c))
    THEN Raise(c)
    ELSE LET out == c.heap[c.array][PyPos(key, len(c)) + 1]
             c1  == [c EXCEPT !.accesses = c.accesses + 1]
         IN  Return(summary(c1, [type |-> "access", args |-> <<key>>,
                                 value |-> <<>>]), <<out>>)

\* __getitem__ with `self.accesses += 2`.
getitem_counts_two(c, key) ==
    IF ~PyIndexOK(key, len(c))
    THEN Raise(c)
    ELSE LET out == c.heap[c.array][PyPos(key, len(c)) + 1]
             c1  == [c EXCEPT !.accesses = c.accesses + 2]
             c2  == IF c1.verbose
                    THEN summary(c1, [type |-> "access", args |-> <<key>>,
                                      value |-> <<>>])
                    ELSE c1
         IN  Return(c2, <<out>>)

\* Array.__getitem__
getitem(c, key) ==
    IF ~PyIndexOK(key, len(c))
    THEN Raise(c)
    ELSE LET out == c.heap[c.array][PyPos(key, len(c)) + 1]
             c1  == [c EXCEPT !.accesses = c.accesses + 1]
             c2  == IF c1.verbose
                    THEN summary(c1, [type |-> "access", args |-> <<key>>,
                                      value |-> <<>>])
                    ELSE c1
         IN  Return(c2, <<out>>)

\* __setitem__ without `self.update_permutation()`.
setitem_stale_permutation(c, key, value) ==
    IF key < 0 \/ key >= len(c)
    THEN Raise(c)
    ELSE LET c1 == [c EXCEPT !.heap = store(c.heap, c.array, key, value)]
         IN  Return(summary(c1, [type |-> "insert", args |-> <<key>>,
                                 value |-> <<value>>]), <<>>)

\* Array.__setitem__
setitem(c, key, value) ==
    IF key < 0 \/ key >= len(c)
    THEN Raise(c)
    ELSE LET c1 == [c EXCEPT !.heap = store(c.heap, c.array, key, value)]
             c2 == update_permutation(c1)
         IN  Return(summary(c2, [type |-> "insert", args |-> <<key>>,
                                 value |-> <<value>>]), <<>>)

\* The tail of swap without `self.swaps += 1`.
swap_record_nocount(c, index1, index2) ==
    summary(c, [type |-> "swap", args |-> <<index1, index2>>,
                value |-> <<>>])

\* The tail of Array.swap: self.swaps += 1 and the snapshot.
swap_record(c, index1, index2) ==
    LET c1 == [c EXCEPT !.swaps = c.swaps + 1]
    IN  summary(c1, [type |-> "swap", args |-> <<index1, index2>>,
                     value |-> <<>>])

\* swap whose exchange is two assignments in a row, a[i] = a[j]; a[j] = a[i],
\* so that the second one reads the slot the first one wrote.
swap_sequential(c, index1, index2, silent) ==
    IF ~silent
    THEN LET r2 == getitem(c, index2) IN
         IF r2.exc THEN Raise(r2.c) ELSE
         LET w1 == setitem(r2.c, index1, r2.out[1]) IN
         IF w1.exc THEN Raise(w1.c) ELSE
         LET r1 == getitem(w1.c, index1) IN
         IF r1.exc THEN Raise(r1.c) ELSE
         LET w2 == setitem(r1.c, index2, r1.out[1]) IN
         IF w2.exc THEN Raise(w2.c) ELSE
         Return(swap_record(w2.c, index1, index2), <<>>)
    ELSE IF ~PyIndexOK(index2, len(c)) \/ ~PyIndexOK(index1, len(c))
         THEN Raise(c)
         ELSE LET v2 == c.heap[c.array][PyPos(index2, len(c)) + 1]
                  h1 == store(c.heap, c.array, PyPos(index1, len(c)), v2)
                  h2 == store(h1, c.array, PyPos(index2, len(c)), v2)
              IN  Return(swap_record([c EXCEPT !.heap = h2], index1, index2),
                         <<>>)

\* Array.swap
swap(c, index1, index2, silent) ==
    IF ~silent
    THEN \* self[index1], self[index2] = self[index2], self[index1]
         LET r2 == getitem(c, index2) IN
         IF r2.exc THEN Raise(r2.c) ELSE
         LET r1 == getitem(r2.c, index1) IN
         IF r1.exc THEN Raise(r1.c) ELSE
         LET w1 == setitem(r1.c, index1, r2.out[1]) IN
         IF w1.exc THEN Raise(w1.c) ELSE
         LET w2 == setitem(w1.c, index2, r1.out[1]) IN
         IF w2.exc THEN Raise(w2.c) ELSE
         Return(swap_record(w2.c, index1, index2), <<>>)
    ELSE \* self.array[index1], self.array[index2] =
         \*     self.array[index2], self.array[index1]
         IF ~PyIndexOK(index2, len(c)) \/ ~PyIndexOK(index1, len(c))
         THEN Raise(c)
         ELSE LET n  == len(c)
                  v2 == c.heap[c.array][PyPos(index2, n) + 1]
                  v1 == c.heap[c.array][PyPos(index1, n) + 1]
                  h1 == store(c.heap, c.array, PyPos(index1, n), v2)
                  h2 == store(h1, c.array, PyPos(index2, n), v1)
              IN  Return(swap_record([c EXCEPT !.heap = h2], index1, index2),
                         <<>>)

\* compare that takes an element's position to be the one it was made at.
find_home(c, elem) == <<elem.index>>

\* The scan of Array.compare: the first position whose resident element
\* carries elem's identity, None when there is none.
find(c, elem) ==
    LET S == {i \in 1..len(c) : c.heap[c.array][i].index = elem.index}
    IN  IF S = {} THEN <<>>
        ELSE <<(CHOOSE i \in S : \A j \in S : i <= j) - 1>>

\* compare with `self.comparisons -= 1`.
compare_decrements(c, elem1, elem2) ==
    LET c1 == [c EXCEPT !.comparisons = c.comparisons - 1]
        index1 == find(c1, elem1)
        index2 == find(c1, elem2)
    IN  summary(c1, [type |-> "compare", args |-> <<index1, index2>>,
                     value |-> <<>>])

\* Array.compare
compare(c, elem1, elem2) ==
    LET c1 == [c EXCEPT !.comparisons = c.comparisons + 1]
        index1 == find(c1, elem1)
        index2 == find(c1, elem2)
    IN  summary(c1, [type |-> "compare", args |-> <<index1, index2>>,
                     value |-> <<>>])

\* The loop of Array.finish from iteration i on; ref is the local list
\* `labels`, which is self.labels itself after the first iteration.
RECURSIVE finish_loop(_, _, _)
finish_loop(c, ref, i) ==
    IF i >= len(c) THEN c
    ELSE LET c1 == [c EXCEPT !.heap = store(c.heap, ref, i, FINISH_COLOR),
                             !.labels = <<ref>>]
         IN  finish_loop(summary(c1, NoAction), ref, i + 1)

\* finish that paints self.labels itself when there is such a list.
finish_on_labels(c) ==
    IF c.labels = <<>>
    THEN LET h == Append(c.heap, nones(len(c)))
         IN  finish_loop([c EXCEPT !.heap = h], Len(h), 0)
    ELSE finish_loop(c, c.labels[1], 0)

\* Array.finish
finish(c) ==
    LET h == Append(c.heap, nones(len(c)))
    IN  finish_loop([c EXCEPT !.heap = h], Len(h), 0)

\* Array.__init__(array, labels, verbose); the caller's list of labels, when
\* there is one, is the list object lref of h.
init(h, values, lref, verb) ==
    LET n  == Len(values)
        h1 == Append(h, elements(values, n))
        c0 == [heap |-> h1,
               array |-> Len(h1),
               permutation |-> range(n),
               accesses |-> 0, comparisons |-> 0, swaps |-> 0,
               labels |-> lref, verbose |-> verb, history |-> <<>>]
    IN  summary(c0, NoAction)

----------------------------------------------------------------------------
\* The tests on tracked elements.  A test returns the container as its calls
\* of compare left it and the boolean in out.

\* ArrayElement.__lt__
lt(c, a, b) == [c |-> compare(c, a, b), out |-> a.element < b.element]

\* ArrayElement.__eq__
eq(c, a, b) == [c |-> compare(c, a, b), out |-> a.element = b.element]

\* `not t`, t the outcome of a test
negate(t) == [c |-> t.c, out |-> ~t.out]

\* `not op_result and self != other`, op_result the outcome of __lt__:
\* `and` stops at a true __lt__; self != other is `not self.__eq__(other)`.
and_ne(op_result, a, b) ==
    IF op_result.out THEN [c |-> op_result.c, out |-> FALSE]
    ELSE negate(eq(op_result.c, a, b))

\* a > b making the __lt__ and the __eq__ test each time.
gt_eager(c, a, b) ==
    LET op_result == lt(c, a, b)
        e == eq(op_result.c, a, b)
    IN  [c |-> e.c, out |-> ~op_result.out /\ ~e.out]

\* a > b as functools.total_ordering derives it from __lt__:
\*     op_result = type(self).__lt__(self, other)
\*     return not op_result and self != other
gt(c, a, b) == and_ne(lt(c, a, b), a, b)

\* a >= b as functools.total_ordering derives it from __lt__:
\*     op_result = type(self).__lt__(self, other)
\*     return not op_result
ge(c, a, b) == negate(lt(c, a, b))

\* a op b for the tests the algorithms make.
test(c, op, a, b) ==
    CASE op = "lt" -> lt(c, a, b)
      [] op = "gt" -> gt(c, a, b)
      [] op = "ge" -> ge(c, a, b)

\* The method call r, returning v in place of its own value.
Out(r, v) == IF r.exc THEN r ELSE Return(r.c, v)

\* A test as the last step of a condition: it does not raise.
Pass(t) == Return(t.c, t.out)

\* The operands of a test, read left to right: a held element and a read,
\* a read and a held element, a read and then the read of arr[k].
pair(elem, r) == Out(r, <<elem, r.out[1]>>)

withElem(r, elem) == Out(r, <<r.out[1], elem>>)

thenGet(r, k) == IF r.exc THEN r ELSE pair(r.out[1], getitem(r.c, k))

\* The test op on the operands that r read, unless a read raised.
tested(op, r) ==
    IF r.exc THEN r ELSE Pass(test(r.c, op, r.out[1], r.out[2]))

\* arr[k1] op arr[k2]: the two reads, left to right, then the test.
testAt(c, op, k1, k2) == tested(op, thenGet(getitem(c, k1), k2))

\* elem op arr[k], elem an element held in a local variable.
testElemAt(c, op, elem, k) == tested(op, pair(elem, getitem(c, k)))

\* arr[k] op elem
testAtElem(c, op, k, elem) == tested(op, withElem(getitem(c, k), elem))

\* `arr.swap(index1, index2)` whatever the test t says.
swapIf_always(t, index1, index2) ==
    IF t.exc THEN t ELSE Out(swap(t.c, index1, index2, FALSE), TRUE)

\* `if <test>: arr.swap(index1, index2)`, t the outcome of the test; out
\* tells whether the test held.
swapIf(t, index1, index2) ==
    IF t.exc \/ ~t.out THEN t
    ELSE Out(swap(t.c, index1, index2, FALSE), TRUE)

\* arr[dst] = arr[src]
stored(r, dst) == IF r.exc THEN r ELSE setitem(r.c, dst, r.out[1])

move(c, dst, src) == stored(getitem(c, src), dst)

\* while <test>: arr[dst] = arr[src]; ...
\* arr[dst] = key
\* from the test t of the while up to the next one: the body when the test
\* holds, the statement after the loop when it does not.
shift_or_place(t, dst, src, key) ==
    IF t.exc THEN t
    ELSE IF t.out THEN Out(move(t.c, dst, src), TRUE)
    ELSE Out(setitem(t.c, dst, key), FALSE)

\* `if <test>: ... else: arr.swap(index1, index2)`, t the outcome of the test
swapUnless(t, index1, index2) ==
    IF t.exc \/ t.out THEN t
    ELSE Out(swap(t.c, index1, index2, FALSE), FALSE)

\* `if <test>: arr.swap(w, i) else: arr.swap(w, j)`
swapBy(t, w, i, j) ==
    IF t.exc THEN t
    ELSE Out(swap(t.c, w, IF t.out THEN i ELSE j, FALSE), t.out)

\* arr.labels = [None for i in range(len(arr))]
new_labels(c) ==
    LET h == Append(c.heap, nones(len(c)))
    IN  [c EXCEPT !.heap = h, !.labels = <<Len(h)>>]

\* arr.labels[pos] = color
set_label(c, pos, color) ==
    [c EXCEPT !.heap = store(c.heap, c.labels[1], pos, color)]

\* for pos in range(lo, hi): arr.labels[pos] = color
RECURSIVE paint(_, _, _, _)
paint(c, lo, hi, color) ==
    IF lo >= hi THEN c ELSE paint(set_label(c, lo, color), lo + 1, hi, color)

\* int(x / 2) for an integer x: Python's int() truncates towards zero.
int_half(x) == IF x >= 0 THEN x \div 2 ELSE -((-x) \div 2)

----------------------------------------------------------------------------
\* The algorithms.  A run is a stack of frames, one for each function call
\* in progress, the last one on top; a frame holds the position pc in its
\* function and the function's local variables.  An algorithm is given as
\* the blocks of its functions: block(c, f) runs frame f from f.pc up to the
\* next loop header, call or return, and says what the container becomes,
\* whether a container method raised, which frames replace f (none when the
\* function returns) and what the function returns.

Jump(c, frames) == [c |-> c, exc |-> FALSE, frames |-> frames, ret |-> 0]

Leave(c, ret) == [c |-> c, exc |-> FALSE, frames |-> <<>>, ret |-> ret]

Abort(c) == [c |-> c, exc |-> TRUE, frames |-> <<>>, ret |-> 0]

\* The statement r ends the block: its ValueError ends the run, else
\* frames replace the block's frame.
Then(r, frames) == IF r.exc THEN Abort(r.c) ELSE Jump(r.c, frames)

\* The test or guarded statement r ends the block: the frames yes when the
\* test held, the frames no when it did not.
Branch(r, yes, no) ==
    IF r.exc THEN Abort(r.c) ELSE Jump(r.c, IF r.out THEN yes ELSE no)

\* `name = arr[k]`, r the read, before the block of frame.
Assign(r, frame, name) ==
    IF r.exc THEN Abort(r.c) ELSE Jump(r.c, <<(name :> r.out[1]) @@ frame>>)

\* The statement r, then `return ret`.
ThenLeave(r, ret) == IF r.exc THEN Abort(r.c) ELSE Leave(r.c, ret)

\* `if finish: arr.finish()`, the end of every algorithm.
Finally(c) == Leave(IF run.finish THEN finish(c) ELSE c, 0)

\* selection_sort
selection_sort(c, f) ==
    CASE f.pc = "def" -> Jump(c, <<[pc |-> "for i", i |-> 0]>>)
      [] f.pc = "for i" ->
            IF f.i < len(c)
            THEN Jump(c, <<[pc |-> "for j", i |-> f.i, min_id |-> f.i,
                            j |-> f.i + 1]>>)
            ELSE Finally(c)
      [] f.pc = "for j" ->
            IF f.j < len(c)
            THEN Branch(testAt(c, "gt", f.min_id, f.j),
                        <<[f EXCEPT !.j = f.j + 1, !.min_id = f.j]>>,
                        <<[f EXCEPT !.j = f.j + 1]>>)
            ELSE Then(swap(c, f.i, f.min_id, FALSE),
                      <<[pc |-> "for i", i |-> f.i + 1]>>)

\* insertion_sort
insertion_sort(c, f) ==
    CASE f.pc = "def" -> Jump(c, <<[pc |-> "for i", i |-> 1]>>)
      [] f.pc = "for i" ->
            IF f.i < len(c)
            THEN Assign(getitem(c, f.i),
                        [pc |-> "while", i |-> f.i, j |-> f.i - 1], "key")
            ELSE Finally(c)
      [] f.pc = "while" ->
            Branch(shift_or_place(IF f.j >= 0
                                  THEN testElemAt(c, "lt", f.key, f.j)
                                  ELSE Return(c, FALSE),
                                  f.j + 1, f.j, f.key),
                   <<[f EXCEPT !.j = f.j - 1]>>,
                   <<[pc |-> "for i", i |-> f.i + 1]>>)

\* bubble_sort
bubble_sort(c, f) ==
    CASE f.pc = "def" -> Jump(c, <<[pc |-> "for i", i |-> 0]>>)
      [] f.pc = "for i" ->
            IF f.i < len(c)
            THEN Jump(c, <<[pc |-> "for j", i |-> f.i, j |-> 0]>>)
            ELSE Finally(c)
      [] f.pc = "for j" ->
            IF f.j < len(c) - f.i - 1
            THEN Then(swapIf(testAt(c, "gt", f.j, f.j + 1), f.j, f.j + 1),
                      <<[f EXCEPT !.j = f.j + 1]>>)
            ELSE Jump(c, <<[pc |-> "for i", i |-> f.i + 1]>>)

\* slow_sort and its slow_sort_(arr, i, j)
slow_sort(c, f) ==
    CASE f.pc = "def" ->
            Jump(c, <<[pc |-> "finish"],
                      [pc |-> "slow_sort_", i |-> 0, j |-> len(c) - 1]>>)
      [] f.pc = "finish" -> Finally(c)
      [] f.pc = "slow_sort_" ->
            IF f.i >= f.j THEN Leave(c, 0)
            ELSE LET m == int_half(f.i + f.j) IN
                 Jump(c, <<[pc |-> "second", i |-> f.i, j |-> f.j, m |-> m],
                           [pc |-> "slow_sort_", i |-> f.i, j |-> m]>>)
      [] f.pc = "second" ->
            Jump(c, <<[f EXCEPT !.pc = "if"],
                      [pc |-> "slow_sort_", i |-> f.m + 1, j |-> f.j]>>)
      [] f.pc = "if" ->
            Then(swapIf(testAt(c, "lt", f.j, f.m), f.j, f.m),
                 <<[f EXCEPT !.pc = "return"],
                   [pc |-> "slow_sort_", i |-> f.i, j |-> f.j - 1]>>)
      [] f.pc = "return" -> Leave(c, 0)

\* A Python number of stooge_sort, kept as three times its value: an int,
\* or the float that a true division by 3 makes.
Number(float, x3) == [float |-> float, x3 |-> x3]

\* arr[key], key a Number: the list refuses a float index (TypeError), which
\* the bare except of __getitem__ turns into ValueError.
getitem_number(c, key) ==
    IF key.float THEN Raise(c) ELSE getitem(c, key.x3 \div 3)

\* The second operand arr[key] of a test, key a Number
thenGet_number(r, key) ==
    IF r.exc THEN r ELSE pair(r.out[1], getitem_number(r.c, key))

\* arr[i] > arr[j], i and j Numbers
gtAtNumbers(c, i, j) ==
    tested("gt", thenGet_number(getitem_number(c, i), j))

\* The frames of stooge_sort_ after its first `if`: the rest of the body
\* and the first call when j-i+1 > 2, else none.  The first `if` has read
\* arr[i] and arr[j], so that i and j are ints here.
stooge_rest(f, t3) ==
    IF t3 > 2
    THEN <<[pc |-> "second", i |-> f.i, j |-> f.j, t3 |-> t3],
           [pc |-> "stooge_sort_", i |-> f.i,
            j |-> Number(TRUE, f.j.x3 - t3)]>>
    ELSE <<>>

\* stooge_sort and its stooge_sort_(arr, i, j); t = (j-i+1)/3 is a float,
\* and t3 is three times t.
stooge_sort(c, f) ==
    CASE f.pc = "def" ->
            Jump(c, <<[pc |-> "finish"],
                      [pc |-> "stooge_sort_", i |-> Number(FALSE, 0),
                       j |-> Number(FALSE, 3 * (len(c) - 1))]>>)
      [] f.pc = "finish" -> Finally(c)
      [] f.pc = "stooge_sort_" ->
            Then(swapIf(gtAtNumbers(c, f.i, f.j),
                        f.i.x3 \div 3, f.j.x3 \div 3),
                 stooge_rest(f, (f.j.x3 \div 3) - (f.i.x3 \div 3) + 1))
      [] f.pc = "second" ->
            Jump(c, <<[f EXCEPT !.pc = "third"],
                      [pc |-> "stooge_sort_",
                       i |-> Number(TRUE, f.i.x3 + f.t3), j |-> f.j]>>)
      [] f.pc = "third" ->
            Jump(c, <<[f EXCEPT !.pc = "return"],
                      [pc |-> "stooge_sort_", i |-> f.i,
                       j |-> Number(TRUE, f.j.x3 - f.t3)]>>)
      [] f.pc = "return" -> Leave(c, 0)

LO_COLOR == "#ff00aa"
HI_COLOR == "#00ffa0"
PART_COLOR == "#00ffff"

\* `if arr.labels:`, true of a list that is not empty
truthy_labels(c) == c.labels # <<>> /\ c.heap[c.labels[1]] # <<>>

\* quick_sort, its quick_sort_(arr, lo, hi) and partition_(arr, lo, hi);
\* run.option is the parameter label.
quick_sort(c, f) ==
    CASE f.pc = "def" ->
            Jump(IF run.option THEN new_labels(c) ELSE c,
                 <<[pc |-> "finish"],
                   [pc |-> "quick_sort_", lo |-> 0, hi |-> len(c) - 1]>>)
      [] f.pc = "finish" -> Finally(c)
      [] f.pc = "quick_sort_" ->
            IF f.lo < f.hi
            THEN Jump(IF run.option
                      THEN set_label(set_label(new_labels(c), f.lo, LO_COLOR),
                                     f.hi, HI_COLOR)
                      ELSE c,
                      <<[pc |-> "p", lo |-> f.lo, hi |-> f.hi],
                        [pc |-> "partition_", lo |-> f.lo, hi |-> f.hi]>>)
            ELSE Leave(c, 0)
      [] f.pc = "partition_" ->
            Assign(getitem(c, f.hi),
                   [pc |-> "for j", lo |-> f.lo, hi |-> f.hi, i |-> f.lo,
                    j |-> f.lo],
                   "pivot")
      [] f.pc = "for j" ->
            IF f.j < f.hi + 1
            THEN Branch(swapIf(testAtElem(c, "lt", f.j, f.pivot), f.i, f.j),
                        <<[f EXCEPT !.j = f.j + 1, !.i = f.i + 1]>>,
                        <<[f EXCEPT !.j = f.j + 1]>>)
            ELSE ThenLeave(swap(c, f.i, f.hi, FALSE), f.i)
      [] f.pc = "p" ->
            Jump(IF truthy_labels(c) THEN set_label(c, run.ret, PART_COLOR)
                 ELSE c,
                 <<[pc |-> "second", lo |-> f.lo, hi |-> f.hi,
                    p |-> run.ret],
                   [pc |-> "quick_sort_", lo |-> f.lo, hi |-> run.ret - 1]>>)
      [] f.pc = "second" ->
            Jump(c, <<[f EXCEPT !.pc = "return"],
                      [pc |-> "quick_sort_", lo |-> f.p + 1, hi |-> f.hi]>>)
      [] f.pc = "return" -> Leave(c, 0)

gaps == <<701, 301, 132, 57, 23, 10, 4, 1>>

\* shell_sort; g is the place in gaps of the gap of the for loop.
shell_sort(c, f) ==
    CASE f.pc = "def" -> Jump(c, <<[pc |-> "for gap", g |-> 1]>>)
      [] f.pc = "for gap" ->
            IF f.g <= Len(gaps)
            THEN Jump(c, <<[pc |-> "for i", g |-> f.g, gap |-> gaps[f.g],
                            i |-> gaps[f.g]]>>)
            ELSE Finally(c)
      [] f.pc = "for i" ->
            IF f.i < len(c)
            THEN Assign(getitem(c, f.i),
                        [pc |-> "while", g |-> f.g, gap |-> f.gap, i |-> f.i,
                         j |-> f.i],
                        "temp")
            ELSE Jump(c, <<[pc |-> "for gap", g |-> f.g + 1]>>)
      [] f.pc = "while" ->
            Branch(shift_or_place(IF f.j >= f.gap
                                  THEN testAtElem(c, "gt", f.j - f.gap, f.temp)
                                  ELSE Return(c, FALSE),
                                  f.j, f.j - f.gap, f.temp),
                   <<[f EXCEPT !.j = f.j - f.gap]>>,
                   <<[pc |-> "for i", g |-> f.g, gap |-> f.gap,
                      i |-> f.i + 1]>>)

\* cocktail_sort
cocktail_sort(c, f) ==
    CASE f.pc = "def" -> Jump(c, <<[pc |-> "while", swapped |-> TRUE]>>)
      [] f.pc = "while" ->
            IF f.swapped
            THEN Jump(c, <<[pc |-> "for i", swapped |-> FALSE, i |-> 0]>>)
            ELSE Finally(c)
      [] f.pc = "for i" ->
            IF f.i < len(c) - 1
            THEN Branch(swapIf(testAt(c, "gt", f.i, f.i + 1), f.i, f.i + 1),
                        <<[f EXCEPT !.i = f.i + 1, !.swapped = TRUE]>>,
                        <<[f EXCEPT !.i = f.i + 1]>>)
            ELSE IF ~f.swapped THEN Finally(c)
            ELSE Jump(c, <<[pc |-> "for i reversed", swapped |-> FALSE,
                            i |-> len(c) - 2]>>)
      [] f.pc = "for i reversed" ->
            IF f.i >= 0
            THEN Branch(swapIf(testAt(c, "gt", f.i, f.i + 1), f.i, f.i + 1),
                        <<[f EXCEPT !.i = f.i - 1, !.swapped = TRUE]>>,
                        <<[f EXCEPT !.i = f.i - 1]>>)
            ELSE Jump(c, <<[pc |-> "while", swapped |-> f.swapped]>>)

\* odd_even_sort
odd_even_sort(c, f) ==
    CASE f.pc = "def" -> Jump(c, <<[pc |-> "while", sorted |-> FALSE]>>)
      [] f.pc = "while" ->
            IF ~f.sorted
            THEN Jump(c, <<[pc |-> "for i odd", sorted |-> TRUE, i |-> 1]>>)
            ELSE Finally(c)
      [] f.pc = "for i odd" ->
            IF f.i < len(c) - 1
            THEN Branch(swapIf(testAt(c, "gt", f.i, f.i + 1), f.i, f.i + 1),
                        <<[f EXCEPT !.i = f.i + 2, !.sorted = FALSE]>>,
                        <<[f EXCEPT !.i = f.i + 2]>>)
            ELSE Jump(c, <<[pc |-> "for i even", sorted |-> f.sorted,
                            i |-> 0]>>)
      [] f.pc = "for i even" ->
            IF f.i < len(c) - 1
            THEN Branch(swapIf(testAt(c, "gt", f.i, f.i + 1), f.i, f.i + 1),
                        <<[f EXCEPT !.i = f.i + 2, !.sorted = FALSE]>>,
                        <<[f EXCEPT !.i = f.i + 2]>>)
            ELSE Jump(c, <<[pc |-> "while", sorted |-> f.sorted]>>)

\* comb_sort with `gap = int(gap/shrink)` leaving the gap as it is.
shrink_keeps(gap) == gap

\* int(gap/shrink), shrink = 1.3: the integer part of 10*gap/13.
shrink(gap) == (10 * gap) \div 13

\* comb_sort
comb_sort(c, f) ==
    CASE f.pc = "def" ->
            Jump(c, <<[pc |-> "while", gap |-> len(c), sorted |-> FALSE]>>)
      [] f.pc = "while" ->
            IF ~f.sorted
            THEN LET gap == shrink(f.gap) IN
                 Jump(c, <<[pc |-> "while i",
                            gap |-> IF gap <= 1 THEN 1 ELSE gap,
                            sorted |-> IF gap <= 1 THEN TRUE ELSE f.sorted,
                            i |-> 0]>>)
            ELSE Finally(c)
      [] f.pc = "while i" ->
            IF f.i + f.gap < len(c)
            THEN Branch(swapIf(testAt(c, "gt", f.i, f.i + f.gap),
                               f.i, f.i + f.gap),
                        <<[f EXCEPT !.i = f.i + 1, !.sorted = FALSE]>>,
                        <<[f EXCEPT !.i = f.i + 1]>>)
            ELSE Jump(c, <<[pc |-> "while", gap |-> f.gap,
                            sorted |-> f.sorted]>>)

\* gnome_sort
gnome_sort(c, f) ==
    CASE f.pc = "def" -> Jump(c, <<[pc |-> "while", pos |-> 0]>>)
      [] f.pc = "while" ->
            IF f.pos < len(c)
            THEN Branch(swapUnless(IF f.pos = 0 THEN Return(c, TRUE)
                                   ELSE testAt(c, "ge", f.pos, f.pos - 1),
                                   f.pos, f.pos - 1),
                        <<[f EXCEPT !.pos = f.pos + 1]>>,
                        <<[f EXCEPT !.pos = f.pos - 1]>>)
            ELSE Finally(c)

\* parent = lambda i: int(0.5*(i-1))
parent(i) == int_half(i - 1)

\* left_child = lambda i: 2*i+1
left_child(i) == 2 * i + 1

\* int(log2(x)) for x >= 1
RECURSIVE int_log2(_)
int_log2(x) == IF x < 2 THEN 0 ELSE 1 + int_log2(x \div 2)

RECURSIVE pow(_, _)
pow(b, e) == IF e = 0 THEN 1 ELSE b * pow(b, e - 1)

\* The colour (0, 1./(n+1), 1./(n+1)) of level n of the heap.
LevelColor(level) ==
    <<"(0, 1.0, 1.0)", "(0, 0.5, 0.5)", "(0, 0.33, 0.33)",
      "(0, 0.25, 0.25)">>[level + 1]

\* The show_heap loops of heap_sort from position i of level n on: level n
\* is indicies[2**n : 2**(n+1)], and every position painted is followed by
\* arr.history.append(arr.summary()).
RECURSIVE show_heap(_, _, _)
show_heap(c, level, i) ==
    IF level >= int_log2(len(c)) + 2 THEN c
    ELSE IF i >= pow(2, level + 1) \/ i >= len(c)
    THEN show_heap(c, level + 1, pow(2, level + 1))
    ELSE show_heap(summary(set_label(c, i, LevelColor(level)), NoAction),
                   level, i + 1)

\* arr.labels = []
unlabel(c) ==
    LET h == Append(c.heap, <<>>)
    IN  [c EXCEPT !.heap = h, !.labels = <<Len(h)>>]

\* `if <test>: swap = a`, the local variable swap of sift_down being b
\* before: the outcome returns swap.
choose(t, a, b) == IF t.exc THEN t ELSE Return(t.c, IF t.out THEN a ELSE b)

\* `if child+1 <= end and arr[swap] < arr[child+1]: swap = child+1`, s the
\* outcome of the statement before, which returns swap.
sift_right(s, child, end) ==
    IF s.exc \/ child + 1 > end THEN s
    ELSE choose(testAt(s.c, "lt", s.out, child + 1), child + 1, s.out)

\* `if swap == root: return`, `else: arr.swap(root,swap)`
sift_swap(s, root) ==
    IF s.exc \/ s.out = root THEN s
    ELSE Out(swap(s.c, root, s.out, FALSE), s.out)

\* The body of the loop of sift_down, returning swap.
sift(c, root, child, end) ==
    sift_swap(sift_right(choose(testAt(c, "lt", root, child), child, root),
                         child, end),
              root)

\* The end of the body of the loop of sift_down, s its outcome: the
\* function returns when swap is root, else `root = swap` and the loop
\* goes on.
sift_next(s, f) ==
    IF s.exc THEN Abort(s.c)
    ELSE IF s.out = f.root THEN Leave(s.c, 0)
    ELSE Jump(s.c, <<[f EXCEPT !.root = s.out]>>)

\* heap_sort, its heapify(arr) and sift_down(start, end); run.option is the
\* parameter show_heap.
heap_sort(c, f) ==
    CASE f.pc = "def" -> Jump(c, <<[pc |-> "show_heap"], [pc |-> "heapify"]>>)
      [] f.pc = "heapify" ->
            Jump(c, <<[pc |-> "while start", start |-> parent(len(c) - 1)]>>)
      [] f.pc = "while start" ->
            IF f.start >= 0
            THEN Jump(c, <<[f EXCEPT !.start = f.start - 1],
                           [pc |-> "sift_down", root |-> f.start,
                            end |-> len(c) - 1]>>)
            ELSE Leave(c, 0)
      [] f.pc = "sift_down" ->
            IF left_child(f.root) <= f.end
            THEN sift_next(sift(c, f.root, left_child(f.root), f.end), f)
            ELSE Leave(c, 0)
      [] f.pc = "show_heap" ->
            Jump(unlabel(IF run.option THEN show_heap(new_labels(c), 0, 1)
                         ELSE c),
                 <<[pc |-> "while end", end |-> len(c) - 1]>>)
      [] f.pc = "while end" ->
            IF f.end > 0
            THEN Then(swap(c, f.end, 0, FALSE),
                      <<[f EXCEPT !.end = f.end - 1],
                        [pc |-> "sift_down", root |-> 0, end |-> f.end - 1]>>)
            ELSE Finally(c)

\* The head of wmerge: `if labels:` the new list of labels with xs[i, m)
\* purple and xs[j, n) pink.
wmerge_labels(c, i, m, j, n_) ==
    IF run.option
    THEN paint(paint(new_labels(c), i, m, "purple"), j, n_, "pink")
    ELSE c

\* merge_sort, its wmerge(xs, i, m, j, n, w), wsort(xs, l, u, w) and
\* imsort(xs, l, u); run.option is the parameter labels, and n_ the local
\* variable n.
merge_sort(c, f) ==
    CASE f.pc = "def" ->
            Jump(c, <<[pc |-> "finish"],
                      [pc |-> "imsort", l |-> 0, u |-> len(c)]>>)
      [] f.pc = "finish" -> Finally(c)
      [] f.pc = "imsort" ->
            IF f.u - f.l > 1
            THEN LET m == f.l + (f.u - f.l) \div 2
                     w == f.l + f.u - m
                 IN  Jump(c, <<[pc |-> "while w", l |-> f.l, u |-> f.u,
                                w |-> w],
                               [pc |-> "wsort", l |-> f.l, u |-> m, w |-> w]>>)
            ELSE Leave(c, 0)
      [] f.pc = "while w" ->
            IF f.w - f.l > 2
            THEN LET n_ == f.w
                     w == f.l + (n_ - f.l + 1) \div 2
                 IN  Jump(c, <<[pc |-> "wmerge call", l |-> f.l, u |-> f.u,
                                w |-> w, n_ |-> n_],
                               [pc |-> "wsort", l |-> w, u |-> n_, w |-> f.l]>>)
            ELSE Jump(c, <<[pc |-> "while n", l |-> f.l, u |-> f.u,
                            n_ |-> f.w]>>)
      [] f.pc = "wmerge call" ->
            Jump(c, <<[pc |-> "while w", l |-> f.l, u |-> f.u, w |-> f.w],
                      [pc |-> "wmerge", i |-> f.l, m |-> f.l + f.n_ - f.w,
                       j |-> f.n_, n_ |-> f.u, w |-> f.w]>>)
      [] f.pc = "while n" ->
            IF f.n_ > f.l
            THEN Jump(c, <<[pc |-> "while m", l |-> f.l, u |-> f.u,
                            n_ |-> f.n_, m |-> f.n_]>>)
            ELSE Leave(c, 0)
      [] f.pc = "while m" ->
            Branch(IF f.m < f.u
                   THEN swapIf(testAt(c, "lt", f.m, f.m - 1), f.m, f.m - 1)
                   ELSE Return(c, FALSE),
                 <<[f EXCEPT !.m = f.m + 1]>>,
                 <<[pc |-> "while n", l |-> f.l, u |-> f.u,
                    n_ |-> f.n_ - 1]>>)
      [] f.pc = "wsort" ->
            IF f.u - f.l > 1
            THEN LET m == f.l + (f.u - f.l) \div 2 IN
                 Jump(c, <<[pc |-> "imsort second", l |-> f.l, u |-> f.u,
                            w |-> f.w, m |-> m],
                           [pc |-> "imsort", l |-> f.l, u |-> m]>>)
            ELSE Jump(c, <<[f EXCEPT !.pc = "while l"]>>)
      [] f.pc = "imsort second" ->
            Jump(c, <<[f EXCEPT !.pc = "wmerge halves"],
                      [pc |-> "imsort", l |-> f.m, u |-> f.u]>>)
      [] f.pc = "wmerge halves" ->
            Jump(c, <<[pc |-> "return"],
                      [pc |-> "wmerge", i |-> f.l, m |-> f.m, j |-> f.m,
                       n_ |-> f.u, w |-> f.w]>>)
      [] f.pc = "return" -> Leave(c, 0)
      [] f.pc = "while l" ->
            IF f.l < f.u
            THEN Then(swap(c, f.l, f.w, FALSE),
                      <<[f EXCEPT !.l = f.l + 1, !.w = f.w + 1]>>)
            ELSE Leave(c, 0)
      [] f.pc = "wmerge" ->
            Jump(wmerge_labels(c, f.i, f.m, f.j, f.n_),
                 <<[f EXCEPT !.pc = "while i and j"]>>)
      [] f.pc = "while i and j" ->
            IF f.i < f.m /\ f.j < f.n_
            THEN Branch(swapBy(testAt(c, "lt", f.i, f.j), f.w, f.i, f.j),
                        <<[f EXCEPT !.i = f.i + 1, !.w = f.w + 1]>>,
                        <<[f EXCEPT !.j = f.j + 1, !.w = f.w + 1]>>)
            ELSE Jump(c, <<[f EXCEPT !.pc = "while i"]>>)
      [] f.pc = "while i" ->
            IF f.i < f.m
            THEN Then(swap(c, f.w, f.i, FALSE),
                      <<[f EXCEPT !.w = f.w + 1, !.i = f.i + 1]>>)
            ELSE Jump(c, <<[f EXCEPT !.pc = "while j"]>>)
      [] f.pc = "while j" ->
            IF f.j < f.n_
            THEN Then(swap(c, f.w, f.j, FALSE),
                      <<[f EXCEPT !.w = f.w + 1, !.j = f.j + 1]>>)
            ELSE Leave([c EXCEPT !.labels = <<>>], 0)

\* The parameter base of radix_sort
base == 10

\* colorsys.hsv_to_rgb(j*1./len(buckets), 0.5, 1), by the hue
BucketColor(j) ==
    <<"hsv 0.0", "hsv 0.1", "hsv 0.2", "hsv 0.3", "hsv 0.4", "hsv 0.5",
      "hsv 0.6", "hsv 0.7", "hsv 0.8", "hsv 0.9">>[j + 1]

\* [[0,0] for i in range(base)], from bucket j on
RECURSIVE new_buckets(_)
new_buckets(j) == IF j >= base THEN <<>> ELSE <<<<0, 0>>>> \o new_buckets(j + 1)

\* The end of add_to_bucket: buckets[bucket][1] += 1, and both bounds of
\* every later bucket += 1; from bucket j on.
RECURSIVE grow_buckets(_, _, _)
grow_buckets(buckets, bucket, j) ==
    IF j > Len(buckets) THEN <<>>
    ELSE <<IF j - 1 < bucket THEN buckets[j]
           ELSE IF j - 1 = bucket THEN <<buckets[j][1], buckets[j][2] + 1>>
           ELSE <<buckets[j][1] + 1, buckets[j][2] + 1>>>>
         \o grow_buckets(buckets, bucket, j + 1)

\* `if labels:` for j, bucket in enumerate(buckets): every position of
\* range(bucket[0], bucket[1]) gets the colour of j; from bucket j on.
RECURSIVE paint_buckets(_, _, _)
paint_buckets(c, buckets, j) ==
    IF j > Len(buckets) THEN c
    ELSE paint_buckets(paint(c, buckets[j][1], buckets[j][2],
                             BucketColor(j - 1)),
                       buckets, j + 1)

\* max(arr_copy), arr_copy = [int(i) for i in arr.array]
RECURSIVE max_element(_)
max_element(lst) ==
    IF Len(lst) = 1 THEN lst[1].element
    ELSE LET m == max_element(Tail(lst)) IN
         IF lst[1].element > m THEN lst[1].element ELSE m

\* int(1 + log(x)/log(base)) for an integer x >= 1: the number of digits of
\* x in the base.
RECURSIVE digits(_)
digits(x) == IF x < base THEN 1 ELSE 1 + digits(x \div base)

\* int(arr[index]), the read of arr[index] after that of arr[i] = r: the
\* outcome returns int(arr[i]).
reread(r, index) ==
    IF r.exc THEN r ELSE Out(getitem(r.c, index), r.out[1].element)

\* The head of the body of `for i` in radix_sort_, r the outcome of its
\* reads: bucket is the digit of int(arr[i]), temp the end of the bucket.
bucket_next(r, f) ==
    IF r.exc THEN Abort(r.c)
    ELSE LET bucket == (r.out \div pow(base, f.digit)) % base IN
         Jump(r.c, <<[pc |-> "while", digit |-> f.digit,
                      buckets |-> f.buckets, i |-> f.i, index |-> f.i,
                      bucket |-> bucket,
                      temp |-> f.buckets[bucket + 1][2]]>>)

\* radix_sort, its pass_(arr, digit) and, in the frame of pass_ whose
\* buckets it updates, add_to_bucket(index, bucket); run.option is the
\* parameter labels.
radix_sort(c, f) ==
    CASE f.pc = "def" ->
            Jump(IF run.option THEN new_labels(c) ELSE c,
                 <<[pc |-> "for pos", pos |-> 0,
                    stop |-> 1 + digits(max_element(c.heap[c.array]))]>>)
      [] f.pc = "for pos" ->
            IF f.pos < f.stop
            THEN Jump(c, <<[f EXCEPT !.pos = f.pos + 1],
                           [pc |-> "pass_", digit |-> f.pos]>>)
            ELSE Finally(c)
      [] f.pc = "pass_" ->
            Jump(c, <<[pc |-> "for i", digit |-> f.digit,
                       buckets |-> new_buckets(0), i |-> 0]>>)
      [] f.pc = "for i" ->
            IF f.i < len(c)
            THEN \* int(int(arr[i])//(base**digit)) % base, the argument,
                 \* then buckets_[bucket].append(int(arr[index]))
                 bucket_next(reread(getitem(c, f.i), f.i), f)
            ELSE Leave(new_labels(c), 0)
      [] f.pc = "while" ->
            IF f.index > f.temp
            THEN Then(swap(c, f.index, f.temp, FALSE),
                      <<[f EXCEPT !.temp = f.temp + 1]>>)
            ELSE LET buckets == grow_buckets(f.buckets, f.bucket, 1) IN
                 Jump(IF run.option THEN paint_buckets(c, buckets, 1) ELSE c,
                      <<[pc |-> "for i", digit |-> f.digit,
                         buckets |-> buckets, i |-> f.i + 1]>>)

----------------------------------------------------------------------------
\* The client: construction, then any sequence of calls.  A call that raises
\* ValueError leaves the container as the method left it, and the client (a
\* driver that catches the error) may go on calling it.

\* list(reversed(range(1, n + 1)))
RECURSIVE reversed_range(_)
reversed_range(n) ==
    IF n = 0 THEN <<>> ELSE <<n>> \o reversed_range(n - 1)

\* The inputs: as at the foot of the source, the values n..1, here for every
\* length n up to MaxLen.  No method of the container reads a payload.
Inputs == {reversed_range(n) : n \in 1..MaxLen}

\* The positions a client passes, in the order they are tried: one past the
\* end, the valid ones, and -1, which the container's list accepts as its
\* last position.
Keys == <<len(Self)>> \o range(len(Self)) \o <<-1>>

\* The tracked elements: those made at construction, wherever they are now.
Elements == {ArrayElement(input[i], i - 1) : i \in 1..Len(input)}

\* What the properties compare a call's result with: the container as the
\* call found it.
Before ==
    [array |-> heap[array], permutation |-> permutation,
     accesses |-> accesses, comparisons |-> comparisons, swaps |-> swaps,
     labels |-> IF labels = <<>> THEN <<>> ELSE <<heap[labels[1]]>>,
     hlen |-> Len(history)]

Call(op, keys, elems, silent, exc) ==
    [op |-> op, keys |-> keys, elems |-> elems, silent |-> silent,
     exc |-> exc, before |-> Before]

NoCall ==
    [op |-> "init", keys |-> <<>>, elems |-> <<>>, silent |-> FALSE,
     exc |-> FALSE,
     before |-> [array |-> <<>>, permutation |-> <<>>, accesses |-> 0,
                 comparisons |-> 0, swaps |-> 0, labels |-> <<>>,
                 hlen |-> 0]]

\* No algorithm is running: the client calls the container itself.
NoRun ==
    [alg |-> "none", finish |-> FALSE, option |-> FALSE, status |-> "none",
     stack |-> <<>>, ret |-> 0, steps |-> 0]

\* The container becomes c; the call is logged.
Becomes(c, call) ==
    /\ heap' = c.heap
    /\ array' = c.array
    /\ permutation' = c.permutation
    /\ accesses' = c.accesses
    /\ comparisons' = c.comparisons
    /\ swaps' = c.swaps
    /\ labels' = c.labels
    /\ history' = c.history
    /\ lastOp' = call
    /\ prevOp' = lastOp
    /\ nops' = nops + 1
    /\ UNCHANGED <<input, verbose, run>>

Init ==
    \E inp \in Inputs, verb \in BOOLEAN :
        LET c == init(<<>>, inp, <<>>, verb)    \* Array(inp, verbose = verb)
        IN  /\ input = inp
            /\ heap = c.heap
            /\ array = c.array
            /\ permutation = c.permutation
            /\ accesses = c.accesses
            /\ comparisons = c.comparisons
            /\ swaps = c.swaps
            /\ labels = c.labels
            /\ verbose = c.verbose
            /\ history = c.history
            /\ lastOp = NoCall
            /\ prevOp = NoCall
            /\ reads = 0
            /\ compareCalls = 0
            /\ swapCalls = 0
            /\ nops = 0
            /\ run = NoRun

\* arr[key]
Get ==
    /\ nops < MaxOps
    /\ \E k \in DOMAIN Keys :
        LET key == Keys[k]
            r == getitem(Self, key)
        IN  /\ Becomes(r.c, Call("get", <<key>>, <<>>, FALSE, r.exc))
            /\ reads' = IF r.exc THEN reads ELSE reads + 1
            /\ UNCHANGED <<compareCalls, swapCalls>>

\* arr[key] = value, value a tracked element the client holds
Set ==
    /\ nops < MaxOps
    /\ \E k \in DOMAIN Keys, value \in Elements :
        LET key == Keys[k]
            r == setitem(Self, key, value)
        IN  /\ Becomes(r.c, Call("set", <<key>>, <<value>>, FALSE, r.exc))
            /\ UNCHANGED <<reads, compareCalls, swapCalls>>

\* The element reads a swap call performs before it returns or raises:
\* none when silent, else self[index2], then self[index1].
SwapReads(index1, index2, silent) ==
    IF silent \/ ~PyIndexOK(index2, len(Self)) THEN 0
    ELSE IF ~PyIndexOK(index1, len(Self)) THEN 1 ELSE 2

\* arr.swap(index1, index2, silent)
Swap ==
    /\ nops < MaxOps
    /\ \E k1 \in DOMAIN Keys, k2 \in DOMAIN Keys, silent \in BOOLEAN :
        LET index1 == Keys[k1]
            index2 == Keys[k2]
            r == swap(Self, index1, index2, silent)
        IN  /\ Becomes(r.c, Call("swap", <<index1, index2>>, <<>>, silent,
                                 r.exc))
            /\ reads' = reads + SwapReads(index1, index2, silent)
            /\ swapCalls' = IF r.exc THEN swapCalls ELSE swapCalls + 1
            /\ UNCHANGED compareCalls

\* elem1 < elem2 or elem1 == elem2: the call of arr.compare(elem1, elem2)
Compare ==
    /\ nops < MaxOps
    /\ \E elem1 \in Elements, elem2 \in Elements :
        /\ Becomes(compare(Self, elem1, elem2),
                   Call("compare", <<>>, <<elem1, elem2>>, FALSE, FALSE))
        /\ compareCalls' = compareCalls + 1
        /\ UNCHANGED <<reads, swapCalls>>

\* arr.finish()
Finish ==
    /\ nops < MaxOps
    /\ Becomes(finish(Self), Call("finish", <<>>, <<>>, FALSE, FALSE))
    /\ UNCHANGED <<reads, compareCalls, swapCalls>>

\* arr.labels = None, or arr.labels = [None for i in range(len(arr))]
SetLabels ==
    /\ nops < MaxOps
    /\ \E none \in BOOLEAN :
        LET h == Append(heap, nones(len(Self)))
            c == IF none THEN [Self EXCEPT !.labels = <<>>]
                 ELSE [Self EXCEPT !.heap = h, !.labels = <<Len(h)>>]
        IN  Becomes(c, Call("labels", <<>>, <<>>, none, FALSE))
    /\ UNCHANGED <<reads, compareCalls, swapCalls>>

\* arr.labels[key] = color, on a list of labels
EditLabel ==
    /\ nops < MaxOps
    /\ labels # <<>>
    /\ \E key \in 0..(len(Self) - 1) :
        Becomes([Self EXCEPT !.heap = store(heap, labels[1], key, SomeColor)],
                Call("label", <<key>>, <<>>, FALSE, FALSE))
    /\ UNCHANGED <<reads, compareCalls, swapCalls>>

Next ==
    \/ Get
    \/ Swap
    \/ Set
    \/ Compare
    \/ Finish
    \/ SetLabels
    \/ EditLabel

Spec == Init /\ [][Next]_vars

----------------------------------------------------------------------------
\* What the properties read.

n == Len(input)

\* The positions of the container.
Positions == 0..(n - 1)

\* A snapshot as a consumer of the trace sees it in heap h.
Snapshot(s, h) ==
    [array |-> h[s.array], accesses |-> s.accesses,
     comparisons |-> s.comparisons, swaps |-> s.swaps,
     labels |-> IF s.labels = <<>> THEN <<>> ELSE <<h[s.labels[1]]>>,
     action |-> s.action, permutation |-> s.permutation]

Last == history[Len(history)]

\* The snapshots the last call appended.
Appended == Len(history) - lastOp.before.hlen

\* The last call was a swap; Completed: it returned normally.
Swapped == lastOp.op = "swap"

Completed == ~lastOp.exc

\* A position outside [0, n).
OutOfRange(key) == key < 0 \/ key >= n

\* The last call was a swap of two positions of [0, n) that returned.
ValidSwap ==
    /\ Swapped
    /\ Completed
    /\ ~OutOfRange(lastOp.keys[1])
    /\ ~OutOfRange(lastOp.keys[2])

----------------------------------------------------------------------------
\* C1: every snapshot of the trace, those appended in the middle of a swap
\* included, records a permutation of length n that is a bijection of
\* 0..n-1.
C1_EverySnapshotBijection ==
    \A k \in 1..Len(history) :
        /\ Len(history[k].permutation) = n
        /\ {history[k].permutation[i] : i \in 1..n} = Positions

\* C2: in every snapshot, permutation[i] is the identity of the element at
\* position i of that snapshot's values, after a silent swap too.
C2_PermutationNamesResidents ==
    \A k \in 1..Len(history) :
        \A i \in 1..n :
            history[k].permutation[i] = heap[history[k].array][i].index

\* C3: the trace is append-only and its entries are immutable: whatever the
\* call (get, set, swap, compare, finish, a replacement or an in-place edit
\* of the labels), the trace before it is an unchanged prefix of the trace
\* after it, as a consumer reads it.
C3_TraceAppendOnly ==
    [][/\ Len(history') >= Len(history)
       /\ \A k \in 1..Len(history) :
            Snapshot(history'[k], heap') = Snapshot(history[k], heap)]_vars

\* C3's case: a set overwrote a slot of the array and finish() then painted
\* its list of labels slot by slot, each after snapshots had been taken.
C3_Witness ==
    /\ lastOp.op = "finish"
    /\ n >= 2
    /\ prevOp.op = "set"
    /\ ~prevOp.exc
    /\ prevOp.before.array # heap[array]

\* C4: a get, set or swap with a position outside [0, n), negative or >= n,
\* silent or not, fails with the invalid-index error.
C4_InvalidIndexFails ==
    (/\ lastOp.op \in {"get", "set", "swap"}
     /\ \E i \in 1..Len(lastOp.keys) : OutOfRange(lastOp.keys[i]))
        => lastOp.exc

\* C5: a get, set or swap that fails with the invalid-index error appends
\* no snapshot and leaves the elements, the permutation and the three
\* counters as they were.
C5_FailedCallChangesNothing ==
    lastOp.exc =>
        /\ Len(history) = lastOp.before.hlen
        /\ heap[array] = lastOp.before.array
        /\ permutation = lastOp.before.permutation
        /\ accesses = lastOp.before.accesses
        /\ comparisons = lastOp.before.comparisons
        /\ swaps = lastOp.before.swaps

\* C6: a successful swap(a, b) of valid positions adds 1 to swaps, 2 to
\* accesses (0 when silent) and nothing to comparisons, and its last snapshot
\* is tagged swap(a, b) and shows a and b exchanged, the rest unchanged.
C6_SwapEffect ==
    ValidSwap =>
        LET a == lastOp.keys[1]
            b == lastOp.keys[2]
            was == lastOp.before
            now == heap[Last.array]
        IN  /\ swaps = was.swaps + 1
            /\ accesses = was.accesses + (IF lastOp.silent THEN 0 ELSE 2)
            /\ comparisons = was.comparisons
            /\ Last.action.type = "swap"
            /\ Last.action.args = <<a, b>>
            /\ Last.swaps = swaps
            /\ Last.accesses = accesses
            /\ now[a + 1] = was.array[b + 1]
            /\ now[b + 1] = was.array[a + 1]
            /\ \A p \in Positions \ {a, b} : now[p + 1] = was.array[p + 1]
            /\ heap[array] = now

\* C6's case: a non-silent swap of two different valid positions returned,
\* in verbose mode.
C6_Witness ==
    /\ ValidSwap
    /\ lastOp.keys[1] # lastOp.keys[2]
    /\ ~lastOp.silent
    /\ verbose

\* The last two calls were swap(i, j) and swap(i, j) again, i and j in
\* [0, n), both returning.
SwappedTwice ==
    /\ ValidSwap
    /\ prevOp.op = "swap"
    /\ ~prevOp.exc
    /\ prevOp.keys = lastOp.keys

\* C7: swap(i, j) followed at once by swap(i, j), i = j included and silent
\* or not, puts back the elements that were at i and j, leaves the other
\* positions alone and adds 2 to swaps.
C7_SwapInvolution ==
    SwappedTwice =>
        /\ heap[array] = prevOp.before.array
        /\ swaps = prevOp.before.swaps + 2

\* C7's case: two swaps of the same two different positions, the first
\* silent and the second not, and the first one did move the elements.
C7_Witness ==
    /\ SwappedTwice
    /\ lastOp.keys[1] # lastOp.keys[2]
    /\ prevOp.silent
    /\ ~lastOp.silent
    /\ lastOp.before.array # heap[array]

\* The last call is one of the recorded operations: a successful set or
\* swap, a compare, or a successful get of a verbose container.
Recorded ==
    /\ Completed
    /\ \/ lastOp.op \in {"set", "swap", "compare"}
       \/ lastOp.op = "get" /\ verbose

C9_CountersMonotone ==
    /\ history[1].accesses = 0
    /\ history[1].comparisons = 0
    /\ history[1].swaps = 0
    /\ \A k \in 1..Len(history) :
        /\ history[k].accesses >= 0
        /\ history[k].comparisons >= 0
        /\ history[k].swaps >= 0
    /\ \A k \in 1..(Len(history) - 1) :
        /\ history[k + 1].accesses >= history[k].accesses
        /\ history[k + 1].comparisons >= history[k].comparisons
        /\ history[k + 1].swaps >= history[k].swaps

\* C9's case: a trace in which a comparison was recorded after a swap that
\* counted its two reads.
C9_Witness ==
    /\ lastOp.op = "compare"
    /\ Last.comparisons > 0
    /\ Last.swaps > 0
    /\ Last.accesses > 0

\* C10, as stated: in verbose and in non-verbose mode the last snapshot
\* records the true counts: accesses the element reads performed,
\* comparisons the compare invocations, swaps the completed swap calls.
C10_LastSnapshotTrueCounts ==
    /\ Last.accesses = reads
    /\ Last.comparisons = compareCalls
    /\ Last.swaps = swapCalls

\* C10, amended: the last snapshot's comparisons and swaps are the true
\* counts in both modes and its accesses is the true count in verbose mode;
\* in non-verbose mode a get appends no snapshot, so the container's
\* accesses is the true count while the last snapshot's accesses is the
\* count at the time it was appended: at most the true count, and equal to
\* it when the last call appended a snapshot.
C10_LastSnapshotCounts ==
    /\ Last.comparisons = compareCalls
    /\ Last.swaps = swapCalls
    /\ accesses = reads
    /\ verbose => Last.accesses = reads
    /\ ~verbose => /\ Last.accesses <= reads
                   /\ Appended > 0 => Last.accesses = reads

\* C10's case: a non-verbose container on which a get followed a non-silent
\* swap, so that the last snapshot is behind the reads performed.
C10_Witness ==
    /\ ~verbose
    /\ lastOp.op = "get"
    /\ Completed
    /\ prevOp.op = "swap"
    /\ ~prevOp.exc
    /\ ~prevOp.silent
    /\ Last.accesses < reads

\* The last call was a get, a set, a compare, a finish that returned.
Got == lastOp.op = "get" /\ Completed

Written == lastOp.op = "set" /\ Completed

Compared == lastOp.op = "compare"

Finished == lastOp.op = "finish"

\* The elements, the permutation and the labels are as the last call found
\* them.
SameElements ==
    /\ heap[array] = lastOp.before.array
    /\ permutation = lastOp.before.permutation

SameLabels ==
    lastOp.before.labels = (IF labels = <<>> THEN <<>> ELSE <<heap[labels[1]]>>)

\* Snapshot k of the trace shows the container's elements, permutation and
\* counters as they are now.
ShowsContainer(k) ==
    /\ heap[history[k].array] = heap[array]
    /\ history[k].permutation = permutation
    /\ history[k].accesses = accesses
    /\ history[k].comparisons = comparisons
    /\ history[k].swaps = swaps

\* C11: a successful get(p) adds exactly 1 to accesses and changes nothing
\* else in the container; it appends exactly one snapshot, tagged access(p),
\* when verbose and none when not, so that a non-verbose container on which
\* only gets were performed has a trace of length 1.
C11_GetEffect ==
    /\ Got =>
        /\ accesses = lastOp.before.accesses + 1
        /\ comparisons = lastOp.before.comparisons
        /\ swaps = lastOp.before.swaps
        /\ SameElements
        /\ SameLabels
        /\ Appended = (IF verbose THEN 1 ELSE 0)
        /\ verbose =>
            /\ Last.action = [type |-> "access", args |-> lastOp.keys,
                              value |-> <<>>]
            /\ ShowsContainer(Len(history))
    /\ (/\ ~verbose
        /\ lastOp.op = "get"
        /\ prevOp.op \in {"init", "get"}
        /\ nops <= 2) => Len(history) = 1

\* C11's case: two gets in a row returned on a non-verbose container.
C11_Witness ==
    /\ Got
    /\ ~verbose
    /\ prevOp.op = "get"
    /\ ~prevOp.exc
    /\ nops = 2
    /\ accesses = 2

\* C12: set(p, v) on a valid position p, verbose or not, replaces the
\* content of position p only, leaves accesses, comparisons and swaps
\* unchanged, recomputes the permutation from the resident identities and
\* appends exactly one snapshot, tagged write(p, v).
C12_SetEffect ==
    Written =>
        LET p == lastOp.keys[1]
            v == lastOp.elems[1]
        IN  /\ heap[array][p + 1] = v
            /\ \A q \in Positions \ {p} :
                    heap[array][q + 1] = lastOp.before.array[q + 1]
            /\ accesses = lastOp.before.accesses
            /\ comparisons = lastOp.before.comparisons
            /\ swaps = lastOp.before.swaps
            /\ permutation = indexes(heap[array])
            /\ SameLabels
            /\ Appended = 1
            /\ Last.action = [type |-> "insert", args |-> <<p>>,
                              value |-> <<v>>]
            /\ ShowsContainer(Len(history))

\* C12's case: a set put an element into a slot another element held, so
\* that the permutation changed.
C12_Witness ==
    /\ Written
    /\ heap[array] # lastOp.before.array
    /\ permutation # lastOp.before.permutation

\* Position p, or None, is where compare may say elem is: a position whose
\* resident has elem's identity, None when no resident has it.
Locates(p, elem) ==
    IF p = <<>>
    THEN \A q \in Positions : heap[array][q + 1].index # elem.index
    ELSE /\ p[1] \in Positions
         /\ heap[array][p[1] + 1].index = elem.index

\* C13: compare(a, b) never fails: it adds exactly 1 to comparisons, changes
\* no other counter and no element, and appends exactly one snapshot,
\* verbose or not, tagged compare(pa, pb), pa (pb) being a current position
\* whose resident has a's (b's) identity, or null when no resident has it.
C13_CompareEffect ==
    Compared =>
        /\ Completed
        /\ comparisons = lastOp.before.comparisons + 1
        /\ accesses = lastOp.before.accesses
        /\ swaps = lastOp.before.swaps
        /\ SameElements
        /\ SameLabels
        /\ Appended = 1
        /\ Last.action.type = "compare"
        /\ Len(Last.action.args) = 2
        /\ Locates(Last.action.args[1], lastOp.elems[1])
        /\ Locates(Last.action.args[2], lastOp.elems[2])
        /\ ShowsContainer(Len(history))

\* C13's case: a set overwrote the slot of an element, and a compare of that
\* element with the one now resident twice recorded null and a position
\* that is not the one the resident was made at.
C13_Witness ==
    /\ Compared
    /\ prevOp.op = "set"
    /\ ~prevOp.exc
    /\ Last.action.args[1] = <<>>
    /\ Last.action.args[2] # <<>>
    /\ Last.action.args[2] # <<lastOp.elems[2].index>>

\* The labels of snapshot k, a list: the first painted slots carry the
\* terminal annotation, the others none.
PaintedUpTo(k, painted) ==
    /\ history[k].labels # <<>>
    /\ Len(heap[history[k].labels[1]]) = n
    /\ \A p \in Positions :
            heap[history[k].labels[1]][p + 1] =
                (IF p < painted THEN FINISH_COLOR ELSE NoLabel)

\* C14: finish() on a container of length n appends exactly n snapshots,
\* each tagged none; in the k-th of them positions 0..k-1 carry the terminal
\* annotation and positions k..n-1 none, whatever the annotations were
\* before; values, permutation and counters are in all n as before the call.
C14_FinishEffect ==
    Finished =>
        /\ Completed
        /\ Appended = n
        /\ SameElements
        /\ accesses = lastOp.before.accesses
        /\ comparisons = lastOp.before.comparisons
        /\ swaps = lastOp.before.swaps
        /\ \A k \in 1..n :
            /\ history[lastOp.before.hlen + k].action = NoAction
            /\ PaintedUpTo(lastOp.before.hlen + k, k)
            /\ ShowsContainer(lastOp.before.hlen + k)

\* C14's case: finish() on a container of two elements or more whose slots
\* all carried an annotation, the one an earlier finish() had painted.
C14_Witness ==
    /\ Finished
    /\ n >= 2
    /\ prevOp.op = "finish"
    /\ \A p \in Positions : lastOp.before.labels[1][p + 1] = FINISH_COLOR

----------------------------------------------------------------------------
\* The tests a client makes on the elements it holds.

TestCall(op, a, b, out) ==
    [op |-> op, keys |-> <<>>, elems |-> <<a, b>>, silent |-> FALSE,
     exc |-> FALSE, before |-> Before, out |-> out]

\* The container becomes what test t left; the test is logged.
Tested(op, a, b, t) ==
    /\ Becomes(t.c, TestCall(op, a, b, t.out))
    /\ compareCalls' = compareCalls + (t.c.comparisons - comparisons)
    /\ UNCHANGED <<reads, swapCalls>>

\* a < b
Less ==
    /\ nops < MaxOps
    /\ \E a \in Elements, b \in Elements : Tested("lt", a, b, lt(Self, a, b))

\* a == b
Equal ==
    /\ nops < MaxOps
    /\ \E a \in Elements, b \in Elements : Tested("eq", a, b, eq(Self, a, b))

\* a > b
Greater ==
    /\ nops < MaxOps
    /\ \E a \in Elements, b \in Elements : Tested("gt", a, b, gt(Self, a, b))

TestNext == Less \/ Equal \/ Greater

\* Construction, then any sequence of tests.
TestSpec == Init /\ [][TestNext]_vars

\* C20: a test a < b or a == b of two tracked elements invokes compare
\* exactly once before it returns its boolean; the derived a > b invokes it
\* once when a's payload is less than b's and twice otherwise; so one a > b
\* adds 1 or 2 to comparisons and appends 1 or 2 compare snapshots.
C20_TestsInvokeCompare ==
    lastOp.op \in {"lt", "eq", "gt"} =>
        LET a == lastOp.elems[1]
            b == lastOp.elems[2]
            calls == IF lastOp.op = "gt" /\ ~(a.element < b.element)
                     THEN 2 ELSE 1
        IN  /\ comparisons = lastOp.before.comparisons + calls
            /\ Appended = calls
            /\ \A k \in 1..calls :
                LET s == history[lastOp.before.hlen + k] IN
                /\ s.action = [type |-> "compare",
                               args |-> <<find(Self, a), find(Self, b)>>,
                               value |-> <<>>]
                /\ s.comparisons = lastOp.before.comparisons + k
            /\ accesses = lastOp.before.accesses
            /\ swaps = lastOp.before.swaps
            /\ SameElements
            /\ lastOp.out = (CASE lastOp.op = "lt" -> a.element < b.element
                               [] lastOp.op = "eq" -> a.element = b.element
                               [] lastOp.op = "gt" -> a.element > b.element)

\* C20's case: two a > b tests in a row, the first of an element with the
\* larger payload, which took two compares, the second of an element with
\* the smaller one, which took one.
C20_Witness ==
    /\ lastOp.op = "gt"
    /\ prevOp.op = "gt"
    /\ prevOp.out
    /\ ~lastOp.out
    /\ lastOp.elems[1].element < lastOp.elems[2].element
    /\ comparisons = 3
    /\ Len(history) = 4

----------------------------------------------------------------------------
\* The runs of the algorithms.

\* The permutations of the set S, as sequences.
RECURSIVE permutations(_)
permutations(S) ==
    IF S = {} THEN {<<>>}
    ELSE UNION {{<<x>> \o p : p \in permutations(S \ {x})} : x \in S}

\* The fully reversed sequence of five elements.
ScenarioB == reversed_range(5)

\* The inputs of a run: every permutation of 1..k, k up to MaxK, and the
\* reversed 5..1.
SortInputs ==
    UNION {permutations(1..k) : k \in 1..MaxK} \cup {ScenarioB}

Algorithms ==
    {"selection_sort", "insertion_sort", "bubble_sort", "slow_sort",
     "stooge_sort", "quick_sort", "shell_sort", "cocktail_sort",
     "odd_even_sort", "comb_sort", "gnome_sort", "heap_sort", "merge_sort",
     "radix_sort"}

\* The values of the keyword parameter an algorithm has besides finish:
\* label of quick_sort, show_heap of heap_sort, labels of merge_sort and of
\* radix_sort.
Options(alg) ==
    IF alg \in {"quick_sort", "heap_sort", "merge_sort", "radix_sort"}
    THEN BOOLEAN ELSE {FALSE}

\* The blocks a run on the input may take in the model; no run is followed
\* beyond them.
StepLimit == 4 * Len(input) * Len(input) + 20

\* The block about to run: the frame on top of the stack.
Top == run.stack[Len(run.stack)]

\* The algorithm alg is running.
Running(alg) ==
    /\ run.alg = alg
    /\ run.status = "running"
    /\ run.steps < StepLimit

\* One block ran, with outcome r: the container is what it left, and its
\* frame gives way to the frames it names.  A ValueError unwinds the stack
\* and ends the run.
Step(r) ==
    LET stack == SubSeq(run.stack, 1, Len(run.stack) - 1) \o r.frames IN
    /\ heap' = r.c.heap
    /\ array' = r.c.array
    /\ permutation' = r.c.permutation
    /\ accesses' = r.c.accesses
    /\ comparisons' = r.c.comparisons
    /\ swaps' = r.c.swaps
    /\ labels' = r.c.labels
    /\ history' = r.c.history
    /\ run' = [run EXCEPT
                 !.stack = IF r.exc THEN <<>> ELSE stack,
                 !.ret = r.ret,
                 !.status = IF r.exc THEN "failed"
                            ELSE IF stack = <<>> THEN "returned"
                            ELSE "running",
                 !.steps = run.steps + 1]
    /\ UNCHANGED <<input, verbose, lastOp, prevOp, reads, compareCalls,
                   swapCalls, nops>>

\* arr = Array(inp, verbose = verb), then alg(arr, finish = fin) with the
\* algorithm's other keyword parameter at opt.
SortInit ==
    \E inp \in SortInputs, verb \in BOOLEAN, alg \in Algorithms,
       fin \in BOOLEAN :
        \E opt \in Options(alg) :
            LET c == init(<<>>, inp, <<>>, verb)
            IN  /\ input = inp
                /\ heap = c.heap
                /\ array = c.array
                /\ permutation = c.permutation
                /\ accesses = c.accesses
                /\ comparisons = c.comparisons
                /\ swaps = c.swaps
                /\ labels = c.labels
                /\ verbose = c.verbose
                /\ history = c.history
                /\ lastOp = NoCall
                /\ prevOp = NoCall
                /\ reads = 0
                /\ compareCalls = 0
                /\ swapCalls = 0
                /\ nops = 0
                /\ run = [alg |-> alg, finish |-> fin, option |-> opt,
                          status |-> "running", stack |-> <<[pc |-> "def"]>>,
                          ret |-> 0, steps |-> 0]

SelectionSort ==
    Running("selection_sort") /\ Step(selection_sort(Self, Top))

InsertionSort ==
    Running("insertion_sort") /\ Step(insertion_sort(Self, Top))

BubbleSort == Running("bubble_sort") /\ Step(bubble_sort(Self, Top))

SlowSort == Running("slow_sort") /\ Step(slow_sort(Self, Top))

StoogeSort == Running("stooge_sort") /\ Step(stooge_sort(Self, Top))

QuickSort == Running("quick_sort") /\ Step(quick_sort(Self, Top))

ShellSort == Running("shell_sort") /\ Step(shell_sort(Self, Top))

CocktailSort == Running("cocktail_sort") /\ Step(cocktail_sort(Self, Top))

OddEvenSort == Running("odd_even_sort") /\ Step(odd_even_sort(Self, Top))

CombSort == Running("comb_sort") /\ Step(comb_sort(Self, Top))

GnomeSort == Running("gnome_sort") /\ Step(gnome_sort(Self, Top))

HeapSort == Running("heap_sort") /\ Step(heap_sort(Self, Top))

MergeSort == Running("merge_sort") /\ Step(merge_sort(Self, Top))

RadixSort == Running("radix_sort") /\ Step(radix_sort(Self, Top))

SortNext ==
    \/ SelectionSort
    \/ InsertionSort
    \/ BubbleSort
    \/ SlowSort
    \/ StoogeSort
    \/ QuickSort
    \/ ShellSort
    \/ CocktailSort
    \/ OddEvenSort
    \/ CombSort
    \/ GnomeSort
    \/ HeapSort
    \/ MergeSort
    \/ RadixSort

SortSpec == SortInit /\ [][SortNext]_vars

\* The run returned; Failed: a ValueError ended it.
Returned == run.status = "returned"

Failed == run.status = "failed"

\* [int(i) for i in lst]
RECURSIVE payloads(_)
payloads(lst) ==
    IF lst = <<>> THEN <<>> ELSE <<Head(lst).element>> \o payloads(Tail(lst))

\* list(range(1, k + 1))
RECURSIVE ascending(_)
ascending(k) == IF k = 0 THEN <<>> ELSE Append(ascending(k - 1), k)

\* The number of inversions of a sequence.
Inversions(values) ==
    Cardinality({p \in (1..Len(values)) \X (1..Len(values)) :
                    p[1] < p[2] /\ values[p[1]] > values[p[2]]})

\* C15: selection_sort on a container built from [3,1,2] ends with the
\* values [1,2,3], swaps = 2 and comparisons = 3 in the last snapshot.
C15_SelectionScenario ==
    (run.alg = "selection_sort" /\ Returned /\ input = <<3, 1, 2>>) =>
        /\ payloads(heap[Last.array]) = <<1, 2, 3>>
        /\ Last.swaps = 2
        /\ Last.comparisons = 3

\* C16: bubble_sort on a non-verbose container built from a permutation of
\* 1..k leaves a last snapshot whose values are sorted ascending and whose
\* swaps is the number of inversions of the input; from [5,4,3,2,1] the
\* values [1,2,3,4,5] and swaps = 10.
C16_BubbleSwapsInversions ==
    (run.alg = "bubble_sort" /\ Returned /\ ~verbose) =>
        /\ payloads(heap[Last.array]) = ascending(n)
        /\ Last.swaps = Inversions(input)
        /\ input = <<5, 4, 3, 2, 1>> =>
            /\ payloads(heap[Last.array]) = <<1, 2, 3, 4, 5>>
            /\ Last.swaps = 10

\* C16's case: bubble_sort returned on the non-verbose container built from
\* [5,4,3,2,1].
C16_Witness ==
    /\ run.alg = "bubble_sort"
    /\ Returned
    /\ ~verbose
    /\ input = ScenarioB
    /\ swaps = 10

\* C17: for every permutation of 1..k, every algorithm of the library runs
\* to completion without the invalid-index error and leaves the values
\* sorted ascending, equal to 1..k.
C17_EveryAlgorithmSorts ==
    /\ ~Failed
    /\ Returned => payloads(heap[array]) = ascending(n)

\* C18: in every snapshot of the trace of any algorithm, with or without its
\* labelling option, the labels are None or a list with one slot for each
\* position: as long as the snapshot's values.
C18_LabelsFullLength ==
    \A k \in 1..Len(history) :
        \/ history[k].labels = <<>>
        \/ Len(heap[history[k].labels[1]]) = Len(heap[history[k].array])

\* C19: every algorithm returns or fails after finitely many container
\* operations: the loops of cocktail_sort, odd_even_sort, comb_sort and
\* gnome_sort exit and the recursions of slow_sort, quick_sort and
\* merge_sort bottom out.  A run that has neither returned nor failed is
\* within the step limit, so it goes on.
C19_RunsEnd ==
    run.status = "running" => run.steps < StepLimit

\* C19's case: merge_sort returned from its recursion on three elements or
\* more that it had to move.
C19_Witness ==
    /\ run.alg = "merge_sort"
    /\ Returned
    /\ n >= 3
    /\ input # ascending(n)
    /\ payloads(heap[array]) = ascending(n)

====
